---- MODULE Spec2Model ----
(***************************************************************************)
(* A model of python-git-history-visualizer: the SQLite store of           *)
(* CodeVisualizer, the commit parser of GitVisualizer and the dependency   *)
(* parsers of DependencyVisualizer.                                        *)
(*                                                                         *)
(* Strings are sequences of tokens.  The separators "." and "/" are tokens *)
(* of their own and every maximal run of other characters is one token, so *)
(* "./python/x.py" is <<".", "/", "python", "/", "x", ".", "py">>.  Every   *)
(* concatenation the program makes joins at a separator, so the            *)
(* tokenisation is preserved by the program's string operations.           *)
(***************************************************************************)
EXTENDS Integers, Sequences, FiniteSets, Bags, TLC

VARIABLES
    \* CodeVisualizer: the five tables of the SQLite file at self.path
    db_built,               \* the tables exist (build_db_if_not_exists has run)
    files,                  \* bag of full_path
    functions,              \* bag of <<name, file_full_path>>
    function_dependencies,  \* bag of <<caller_path, callee_path>>
    commits,                \* bag of [hash, author, date]
    commit_files,           \* bag of <<commit_hash, file_path>>
    \* the exception the last call ended with, or "none"
    raised,
    \* the repository GitVisualizer reads: what git log and git show print
    repo_log,               \* sequence of [hash, author, date, files]
    \* GitVisualizer
    include_files, exclude_files,
    include_files_by_pattern, exclude_files_by_pattern,
    gv_parsed,              \* reset() has run: hashes and commits exist
    gv_hashes,              \* self.hashes
    gv_commits,             \* self.commits
    \* the directory DependencyVisualizer walks: the files in os.walk order
    project,                \* sequence of [path, tree]
    \* the last call of the function parse_file
    pf_called, pf_index, pf_result,
    \* DependencyVisualizer
    dv_parsed,              \* reset() has run
    dv_function_dependencies,
    dv_file_dependencies,
    \* the scatter plots: the most changed files the last call selected
    gv_shown, gv_top_files,         \* GitVisualizer.show_file_changes_scatter
    \* CodeVisualizer.show_file_changes_from_git_scatter: top_25_files and the
    \* rows of commits joined to commit_files it fetched
    cv_shown, cv_top_25_files, cv_commits,
    \* CodeVisualizer.show_file_dependencies: node_counts and normalized_counts
    \* by node of the graph
    cv_graph_shown, cv_node_counts, cv_normalized_counts

tableVars == <<db_built, files, functions, function_dependencies, commits,
               commit_files>>

storeVars == <<db_built, files, functions, function_dependencies, commits,
               commit_files, raised>>

filterVars == <<include_files, exclude_files, include_files_by_pattern,
                exclude_files_by_pattern>>

gitVars == <<repo_log, filterVars, gv_parsed, gv_hashes, gv_commits>>

depVars == <<project, pf_called, pf_index, pf_result, dv_parsed,
             dv_function_dependencies, dv_file_dependencies>>

plotVars == <<gv_shown, gv_top_files, cv_shown, cv_top_25_files, cv_commits>>

heatVars == <<cv_graph_shown, cv_node_counts, cv_normalized_counts>>

vars == <<storeVars, gitVars, depVars, plotVars, heatVars>>

(***************************************************************************)
(* Strings                                                                 *)
(***************************************************************************)
Dot == <<".">>

\* the literal './python/' of process_git_commits
PythonPrefix == <<".", "/", "python", "/">>

\* the positions of "." in s
DotPositions(s) == {i \in 1..Len(s) : s[i] = "."}

Max(S) == CHOOSE m \in S : \A n \in S : n <= m

\* s.rsplit('.', 1): the parts around the last ".", or the string alone
RSplit1(s) ==
    IF DotPositions(s) = {} THEN <<s>>
    ELSE LET k == Max(DotPositions(s))
         IN  <<SubSeq(s, 1, k - 1), SubSeq(s, k + 1, Len(s))>>

\* s LIKE '%.py'
LikeDotPy(s) == Len(s) >= 2 /\ s[Len(s) - 1] = "." /\ s[Len(s)] = "py"

(***************************************************************************)
(* The store: SQL statements on [db, built, raised]                        *)
(***************************************************************************)
TableNames == {"files", "functions", "function_dependencies", "commits",
               "commit_files"}

EmptyDb == [t \in TableNames |-> EmptyBag]

\* the primary key of a row: hash for commits, the whole row elsewhere
KeyOf(table, row) == IF table = "commits" THEN row.hash ELSE row

Conflict(db, table, row) ==
    \E r \in BagToSet(db[table]) : KeyOf(table, r) = KeyOf(table, row)

\* an insert that empties the table first
ReplaceRows(db, table, row) == [db EXCEPT ![table] = SetToBag({row})]

AddRow(db, table, row) == [db EXCEPT ![table] = @ (+) SetToBag({row})]

\* a plain INSERT that checks no key: what INSERT OR IGNORE must not be
InsertUnchecked(st, table, row) ==
    IF st.raised # "none" THEN st
    ELSE IF ~st.built THEN [st EXCEPT !.raised = "OperationalError"]
    ELSE [st EXCEPT !.db = AddRow(st.db, table, row)]

\* cursor.execute('INSERT OR IGNORE INTO table ...')
InsertOrIgnore(st, table, row) ==
    IF st.raised # "none" THEN st
    ELSE IF ~st.built THEN [st EXCEPT !.raised = "OperationalError"]
    ELSE IF Conflict(st.db, table, row) THEN st
    ELSE [st EXCEPT !.db = AddRow(st.db, table, row)]

\* cursor.execute('INSERT INTO table ...')
Insert(st, table, row) ==
    IF st.raised # "none" THEN st
    ELSE IF ~st.built THEN [st EXCEPT !.raised = "OperationalError"]
    ELSE IF Conflict(st.db, table, row) THEN [st EXCEPT !.raised = "IntegrityError"]
    ELSE [st EXCEPT !.db = AddRow(st.db, table, row)]

\* a SELECT that finds no row whatever the hash
SelectFindsNothing(st, h) == TRUE

\* cursor.execute('SELECT hash FROM commits WHERE hash = ?'); fetchone() is None
SelectHashIsNone(st, h) == \A r \in BagToSet(st.db.commits) : r.hash # h

\* a connection that keeps what was inserted whatever ended the call
EndTransactionKeeping(st0, st) == st

\* leaving the method: conn.commit() is reached only when nothing was raised;
\* otherwise the connection is dropped with its transaction open and SQLite
\* rolls it back
EndTransaction(st0, st) ==
    IF st.raised = "none" THEN st ELSE [st0 EXCEPT !.raised = st.raised]

(***************************************************************************)
(* CodeVisualizer.process_dependencies                                     *)
(***************************************************************************)
\* a loop body that stores the edge without its files and functions
DependencyStepEdgeOnly(st, edge) ==
    LET caller == RSplit1(edge[1])
        callee == RSplit1(edge[2])
    IN  IF st.raised # "none" THEN st
        ELSE IF Len(caller) # 2 \/ Len(callee) # 2
             THEN [st EXCEPT !.raised = "ValueError"]
        ELSE InsertOrIgnore(st, "function_dependencies", <<caller[2], callee[2]>>)

\* the body of the loop for one (caller, callee)
DependencyStep(st, edge) ==
    LET caller == RSplit1(edge[1])
        callee == RSplit1(edge[2])
    IN  IF st.raised # "none" THEN st
        ELSE IF Len(caller) # 2 \/ Len(callee) # 2
             THEN [st EXCEPT !.raised = "ValueError"]
        ELSE LET s1 == InsertOrIgnore(st, "files", caller[1])
                 s2 == InsertOrIgnore(s1, "files", callee[1])
                 s3 == InsertOrIgnore(s2, "functions", <<caller[2], caller[1]>>)
                 s4 == InsertOrIgnore(s3, "functions", <<callee[2], callee[1]>>)
             IN  InsertOrIgnore(s4, "function_dependencies",
                                <<caller[2], callee[2]>>)

\* the loop over the set dep_visualizer.function_dependencies; the order of a
\* Python set is arbitrary, the inserts commute and an error discards them all
RECURSIVE DependencyLoop(_, _)
DependencyLoop(st, edges) ==
    IF edges = {} THEN st
    ELSE LET e == CHOOSE x \in edges : TRUE
         IN  DependencyLoop(DependencyStep(st, e), edges \ {e})

process_dependencies(st0, edges) ==
    EndTransaction(st0, DependencyLoop(st0, edges))

(***************************************************************************)
(* CodeVisualizer.process_git_commits                                      *)
(***************************************************************************)
\* a commit object without the attribute 'hash'
NoAttr == "<no attribute>"

RECURSIVE CommitFilesLoop(_, _, _, _)
CommitFilesLoop(st, h, fs, j) ==
    IF st.raised # "none" \/ j > Len(fs) THEN st
    ELSE LET file_path == PythonPrefix \o fs[j]
             s1 == InsertOrIgnore(st, "files", file_path)
             s2 == Insert(s1, "commit_files", <<h, file_path>>)
         IN  CommitFilesLoop(s2, h, fs, j + 1)

\* the body of the loop for one commit
CommitStep(st, commit) ==
    IF st.raised # "none" THEN st
    ELSE IF commit.hash = NoAttr THEN [st EXCEPT !.raised = "AttributeError"]
    ELSE IF ~st.built THEN [st EXCEPT !.raised = "OperationalError"]
    ELSE IF ~SelectHashIsNone(st, commit.hash) THEN st
    ELSE LET s1 == Insert(st, "commits",
                          [hash |-> commit.hash, author |-> commit.author,
                           date |-> commit.date])
         IN  CommitFilesLoop(s1, commit.hash, commit.files, 1)

RECURSIVE CommitLoop(_, _, _)
CommitLoop(st, cs, i) ==
    IF i > Len(cs) THEN st
    ELSE CommitLoop(CommitStep(st, cs[i]), cs, i + 1)

process_git_commits(st0, cs) == EndTransaction(st0, CommitLoop(st0, cs, 1))

(***************************************************************************)
(* GitVisualizer.parse_commits                                             *)
(***************************************************************************)
\* Python's None, and a collection (a list or a set) with the items S; the
\* filters only test membership in a collection and iterate over it
None == [is_none |-> TRUE, items |-> {}]
Collection(S) == [is_none |-> FALSE, items |-> S]

\* the truth value of a filter attribute in 'if self.include_files:'
Truthy(x) == ~x.is_none /\ x.items # {}

\* re.match(pattern, file): a pattern is a sequence of atoms, each the set of
\* characters it matches, and it must match from the start of the string
ReMatch(pattern, file) ==
    /\ Len(pattern) <= Len(file)
    /\ \A k \in 1..Len(pattern) : file[k] \in pattern[k]

\* the four tests of the loop over files_list: TRUE when the file reaches
\* commit.files.append(file)
KeepsFile(file, inc, exc, incp, excp) ==
    /\ Truthy(inc) => file \in inc.items
    /\ Truthy(exc) => file \notin exc.items
    /\ Truthy(incp) => \E p \in incp.items : ReMatch(p, file)
    /\ Truthy(excp) => ~\E p \in excp.items : ReMatch(p, file)

\* SelectSeq with the four filters
RECURSIVE FilterFiles(_, _, _, _, _, _)
FilterFiles(fs, j, inc, exc, incp, excp) ==
    IF j > Len(fs) THEN <<>>
    ELSE (IF KeepsFile(fs[j], inc, exc, incp, excp) THEN <<fs[j]>> ELSE <<>>)
         \o FilterFiles(fs, j + 1, inc, exc, incp, excp)

\* datetime.strptime(commit_details[3], '%a %b %d %H:%M:%S %Y %z')
Strptime(text) ==
    CASE text = "Mon Jan 1 10:00:00 2024 +0100" -> "d1"
      [] text = "Tue Jan 2 10:00:00 2024 +0100" -> "d2"

\* the body of the loop of parse_commits for what git show prints of one
\* commit: git_commit() sets author, date and files and no hash
ParseCommit(raw, inc, exc, incp, excp) ==
    [hash |-> NoAttr,
     author |-> raw.author,
     date |-> Strptime(raw.date),
     files |-> FilterFiles(raw.files, 1, inc, exc, incp, excp)]

\* a parser that appends a record only when a file is left
parse_commits_dropping_empty(log, inc, exc, incp, excp) ==
    LET HasFiles(c) == c.files # <<>>
    IN  SelectSeq([i \in 1..Len(log) |-> ParseCommit(log[i], inc, exc, incp, excp)],
                  HasFiles)

\* self.commits after parse_commits
parse_commits(log, inc, exc, incp, excp) ==
    [i \in 1..Len(log) |-> ParseCommit(log[i], inc, exc, incp, excp)]

(***************************************************************************)
(* Bounds and inputs of the store session                                  *)
(***************************************************************************)
MaxCommits == 2     \* commit objects in one git_visualizer.commits
MaxSize == 4        \* commit objects and paths of their files lists together
MaxEdges == 2       \* edges in one dep_visualizer.function_dependencies

Hashes == {"h1", "h2"}
\* the author and the date of a commit object
Signatures == {[author |-> "ann", date |-> "d1"], [author |-> "bob", date |-> "d2"]}
XPy == <<"x", ".", "py">>
YPy == <<"y", ".", "py">>
GitPaths == {XPy, YPy}

SeqsUpTo(S, n) == UNION {[1..k -> S] : k \in 0..n}

\* the commit objects with at most n paths
CommitObjects(n) ==
    {[hash |-> h, author |-> s.author, date |-> s.date, files |-> fs] :
        h \in Hashes, s \in Signatures, fs \in SeqsUpTo(GitPaths, n)}

\* the lists of at most n commit objects in which the objects and the paths
\* of their files lists are at most size together
CommitListsWithin[n \in 0..MaxCommits, size \in 0..MaxSize] ==
    {<<>>} \cup
    IF n = 0 \/ size = 0 THEN {}
    ELSE UNION {{<<c>> \o rest :
                    rest \in CommitListsWithin[n - 1, size - 1 - Len(c.files)]} :
                c \in CommitObjects(size - 1)}

CommitLists == CommitListsWithin[MaxCommits, MaxSize]

DepNames == {"f", "g"}
DepPaths == {PythonPrefix \o XPy, PythonPrefix \o YPy}
SymbolsOf(paths, names) == {p \o Dot \o <<n>> : p \in paths, n \in names}
EdgeSetsOf(symbols) ==
    {E \in SUBSET (symbols \X symbols) : Cardinality(E) <= MaxEdges}
\* the edge sets of a session that also ingests commits: one function name
SessionEdgeSets == EdgeSetsOf(SymbolsOf(DepPaths, {"f"}))
\* the edge sets of a session that ingests dependencies only
EdgeSets == EdgeSetsOf(SymbolsOf(DepPaths, DepNames))

(***************************************************************************)
(* The store session                                                       *)
(***************************************************************************)
Store == [db |-> [files |-> files, functions |-> functions,
                  function_dependencies |-> function_dependencies,
                  commits |-> commits, commit_files |-> commit_files],
          built |-> db_built, raised |-> "none"]

StoreInit ==
    /\ db_built = FALSE
    /\ files = EmptyBag
    /\ functions = EmptyBag
    /\ function_dependencies = EmptyBag
    /\ commits = EmptyBag
    /\ commit_files = EmptyBag
    /\ raised = "none"

\* os.remove(self.path) and the five CREATE TABLE statements
build_db_if_not_exists == [db |-> EmptyDb, built |-> TRUE, raised |-> "none"]

BuildDb ==
    \E r \in {build_db_if_not_exists} :
        /\ db_built' = r.built
        /\ files' = r.db.files
        /\ functions' = r.db.functions
        /\ function_dependencies' = r.db.function_dependencies
        /\ commits' = r.db.commits
        /\ commit_files' = r.db.commit_files
        /\ raised' = r.raised
        /\ UNCHANGED <<gitVars, depVars, plotVars, heatVars>>

\* the rows of commit_files with commit_hash h, as a bag
CommitFilesOf(db, h) ==
    LET rows == {r \in BagToSet(db.commit_files) : r[1] = h}
    IN  [r \in rows |-> CopiesIn(r, db.commit_files)]

PrefixedSet(fs) == {PythonPrefix \o fs[j] : j \in 1..Len(fs)}

ProcessDependencies ==
    \E edges \in SessionEdgeSets :
        \E r \in {process_dependencies(Store, edges)} :
            /\ db_built' = r.built
            /\ files' = r.db.files
            /\ functions' = r.db.functions
            /\ function_dependencies' = r.db.function_dependencies
            /\ commits' = r.db.commits
            /\ commit_files' = r.db.commit_files
            /\ raised' = r.raised
            /\ UNCHANGED <<gitVars, depVars, plotVars, heatVars>>

ProcessGitCommits ==
    \E cs \in CommitLists :
        \E r \in {process_git_commits(Store, cs)} :
            /\ db_built' = r.built
            /\ files' = r.db.files
            /\ functions' = r.db.functions
            /\ function_dependencies' = r.db.function_dependencies
            /\ commits' = r.db.commits
            /\ commit_files' = r.db.commit_files
            /\ raised' = r.raised
            /\ UNCHANGED <<gitVars, depVars, plotVars, heatVars>>

\* no GitVisualizer has been made
GitIdle ==
    /\ repo_log = <<>>
    /\ include_files = None
    /\ exclude_files = None
    /\ include_files_by_pattern = None
    /\ exclude_files_by_pattern = None
    /\ gv_parsed = FALSE
    /\ gv_hashes = <<>>
    /\ gv_commits = <<>>

\* no DependencyVisualizer has been made and parse_file was not called
DepIdle ==
    /\ project = <<>>
    /\ pf_called = FALSE
    /\ pf_index = 0
    /\ pf_result = {}
    /\ dv_parsed = FALSE
    /\ dv_function_dependencies = {}
    /\ dv_file_dependencies = {}

\* no plot has been made
PlotIdle ==
    /\ gv_shown = FALSE
    /\ gv_top_files = <<>>
    /\ cv_shown = FALSE
    /\ cv_top_25_files = {}
    /\ cv_commits = {}

\* show_file_dependencies was not called
HeatIdle ==
    /\ cv_graph_shown = FALSE
    /\ cv_node_counts = <<>>
    /\ cv_normalized_counts = <<>>

Init == StoreInit /\ GitIdle /\ DepIdle /\ PlotIdle /\ HeatIdle

Next == BuildDb \/ ProcessDependencies \/ ProcessGitCommits

Spec == Init /\ [][Next]_vars

(***************************************************************************)
(* The parsing session: a repository, a configured GitVisualizer and a     *)
(* built store                                                             *)
(***************************************************************************)
MaxLog == 2         \* commits in the repository
MaxFilter == 1      \* items in one filter collection

\* paths of single-character names, so that a regular expression atom
\* matches one token
APath == <<"a">>
BPath == <<"b">>
ABPath == <<"a", "/", "b">>
LogPaths == {APath, BPath, ABPath}
Alphabet == {"a", "b", "/"}

\* the regular expressions 'a', 'b' and './'
Patterns == {<<{"a"}>>, <<{"b"}>>, <<Alphabet, {"/"}>>}

\* what git show --name-only lists for a commit
ChangedLists == {<<>>, <<BPath>>, <<APath, ABPath, BPath>>}

RawCommits ==
    {[hash |-> "h1", author |-> "ann",
      date |-> "Mon Jan 1 10:00:00 2024 +0100", files |-> fs] : fs \in ChangedLists}
    \cup
    {[hash |-> "h2", author |-> "bob",
      date |-> "Tue Jan 2 10:00:00 2024 +0100", files |-> fs] : fs \in ChangedLists}

\* the logs of a repository: at least one commit, no hash twice
Logs ==
    {log \in SeqsUpTo(RawCommits, MaxLog) :
        /\ Len(log) >= 1
        /\ \A i, j \in 1..Len(log) : i # j => log[i].hash # log[j].hash}

Filters(S) ==
    {None} \cup {Collection(T) : T \in {T \in SUBSET S : Cardinality(T) <= MaxFilter}}

GitInit ==
    /\ db_built = TRUE
    /\ files = EmptyBag
    /\ functions = EmptyBag
    /\ function_dependencies = EmptyBag
    /\ commits = EmptyBag
    /\ commit_files = EmptyBag
    /\ raised = "none"
    /\ repo_log \in Logs
    /\ include_files \in Filters(LogPaths)
    /\ exclude_files \in Filters(LogPaths)
    /\ include_files_by_pattern \in Filters(Patterns)
    /\ exclude_files_by_pattern \in Filters(Patterns)
    /\ gv_parsed = FALSE
    /\ gv_hashes = <<>>
    /\ gv_commits = <<>>
    /\ DepIdle
    /\ PlotIdle
    /\ HeatIdle

ParseCommits ==
    /\ gv_parsed' = TRUE
    /\ gv_hashes' = [i \in 1..Len(repo_log) |-> repo_log[i].hash]
    /\ gv_commits' = parse_commits(repo_log, include_files, exclude_files,
                                   include_files_by_pattern,
                                   exclude_files_by_pattern)
    /\ UNCHANGED <<storeVars, repo_log, filterVars, depVars, plotVars, heatVars>>

\* visualizer.process_git_commits(git_visualizer) after parse_commits
ProcessParsedCommits ==
    /\ gv_parsed
    /\ \E r \in {process_git_commits(Store, gv_commits)} :
            /\ db_built' = r.built
            /\ files' = r.db.files
            /\ functions' = r.db.functions
            /\ function_dependencies' = r.db.function_dependencies
            /\ commits' = r.db.commits
            /\ commit_files' = r.db.commit_files
            /\ raised' = r.raised
    /\ UNCHANGED <<gitVars, depVars, plotVars, heatVars>>

GitNext == ParseCommits \/ ProcessParsedCommits

SpecGit == GitInit /\ [][GitNext]_vars

(***************************************************************************)
(* Properties of the store session                                         *)
(***************************************************************************)
\* a call on the store as the last call left it
Fresh(st) == [st EXCEPT !.raised = "none"]

\* the first position of each hash in cs that the store does not hold
NewFirst(db, cs) ==
    {i \in 1..Len(cs) :
        /\ \A r \in BagToSet(db.commits) : r.hash # cs[i].hash
        /\ \A j \in 1..(i - 1) : cs[j].hash # cs[i].hash}

HasRepeatedPath(fs) == \E j, k \in 1..Len(fs) : j < k /\ fs[j] = fs[k]

NoDuplicateRows(b) == \A r \in BagToSet(b) : CopiesIn(r, b) = 1

\* given what one call returned, the same call again returns the same tables
GitRerunSame(once, cs) == process_git_commits(Fresh(once), cs).db = once.db
DepRerunSame(once, edges) == process_dependencies(Fresh(once), edges).db = once.db

\* C1: ingesting the same edge set or the same commit list a second time
\* leaves all five tables as the first ingestion left them, from every
\* reachable store and for every input.  A call that raises leaves the tables
\* as they were, so the stores are those of the states with raised = "none".
IdempotentIngestion ==
    raised = "none" =>
    /\ \A cs \in CommitLists :
           GitRerunSame(process_git_commits(Store, cs), cs)
    /\ \A edges \in SessionEdgeSets :
           DepRerunSame(process_dependencies(Store, edges), edges)

\* the store holds commit h1 of ann touching x.py and y.py, in exactly two
\* commit_files rows, and ingesting the identical commit object again
\* returns these tables
ReingestedWitness ==
    /\ raised = "none"
    /\ [hash |-> "h1", author |-> "ann", date |-> "d1"] \in BagToSet(commits)
    /\ CommitFilesOf(Store.db, "h1")
           = SetToBag({<<"h1", PythonPrefix \o XPy>>, <<"h1", PythonPrefix \o YPy>>})
    /\ process_git_commits(Store, <<[hash |-> "h1", author |-> "ann",
                                     date |-> "d1", files |-> <<XPy, YPy>>]>>)
           = Store

\* what a call that returned r from the list cs did to the store, where
\* firsts are the positions of the first objects of new hashes
SkippedAllButFirsts(r, cs, firsts) ==
    /\ (db_built /\ \A i \in firsts : ~HasRepeatedPath(cs[i].files))
           => r.raised = "none"
    /\ r.raised # "none" => r.db = Store.db
    /\ r.raised = "none" =>
           /\ r.db.commits = commits (+) SetToBag(
                  {[hash |-> cs[i].hash, author |-> cs[i].author,
                    date |-> cs[i].date] : i \in firsts})
           /\ r.db.commit_files = commit_files (+) SetToBag(
                  UNION {{<<cs[i].hash, p>> : p \in PrefixedSet(cs[i].files)} :
                            i \in firsts})
           /\ BagToSet(r.db.files) = BagToSet(files) \cup
                  UNION {PrefixedSet(cs[i].files) : i \in firsts}

\* C2: a commit object whose hash is already stored, or came earlier in the
\* same list, is skipped: the call does not raise for it, the stored row keeps
\* its author and date, and the files and commit_files rows after the call are
\* those before it plus those of the first objects of new hashes.  A call
\* that raises leaves the tables as they were, so the stores are those of the
\* states with raised = "none".
SkipsExistingHash ==
    raised = "none" =>
    \A cs \in CommitLists :
        SkippedAllButFirsts(process_git_commits(Store, cs), cs,
                            NewFirst(Store.db, cs))

\* the store holds commit h1 of ann touching x.py only, and a call with an
\* h1 of bob touching y.py returns normally
SkippedWitness ==
    /\ raised = "none"
    /\ [hash |-> "h1", author |-> "ann", date |-> "d1"] \in BagToSet(commits)
    /\ CommitFilesOf(Store.db, "h1") = SetToBag({<<"h1", PythonPrefix \o XPy>>})
    /\ process_git_commits(Store, <<[hash |-> "h1", author |-> "bob",
                                     date |-> "d2", files |-> <<YPy>>]>>).raised
           = "none"

\* C3: no call ends in a key conflict and no table holds a key twice.
NeverRaisesNeverDuplicates ==
    /\ raised # "IntegrityError"
    /\ \A t \in TableNames : NoDuplicateRows(Store.db[t])
    /\ \A r1, r2 \in BagToSet(commits) : r1.hash = r2.hash => r1 = r2

(***************************************************************************)
(* Properties of parse_commits                                             *)
(***************************************************************************)
\* a filter that is not None is configured, whatever it holds
Configured(x) == ~x.is_none

\* the file passes every configured filter
PassesConfigured(file) ==
    /\ Configured(include_files) => file \in include_files.items
    /\ Configured(exclude_files) => file \notin exclude_files.items
    /\ Configured(include_files_by_pattern) =>
           \E p \in include_files_by_pattern.items : ReMatch(p, file)
    /\ Configured(exclude_files_by_pattern) =>
           ~\E p \in exclude_files_by_pattern.items : ReMatch(p, file)

SeqRange(q) == {q[k] : k \in 1..Len(q)}

\* C4: after parse_commits, for every commit of the log and every file it
\* changed, the file is in the record's files exactly when it passes every
\* filter that is not None; an empty collection counts as a filter, so an
\* empty include_files leaves no file.
FilterCorrectness ==
    gv_parsed =>
    /\ Len(gv_commits) = Len(repo_log)
    /\ \A i \in 1..Len(repo_log) :
           \A file \in SeqRange(repo_log[i].files) :
               file \in SeqRange(gv_commits[i].files) <=> PassesConfigured(file)

\* C5: after parse_commits there is one record for every hash read from the
\* log, in the order of the log, with the author and the date of its commit;
\* a commit that changed no file, or none that the filters keep, has its
\* record with files = [].
EmptyCommitsRecorded ==
    gv_parsed =>
    /\ Len(gv_hashes) = Len(repo_log)
    /\ Len(gv_commits) = Len(gv_hashes)
    /\ \A i \in 1..Len(repo_log) :
           /\ gv_hashes[i] = repo_log[i].hash
           /\ gv_commits[i].author = repo_log[i].author
           /\ gv_commits[i].date = Strptime(repo_log[i].date)
           /\ SeqRange(gv_commits[i].files) \subseteq SeqRange(repo_log[i].files)
           /\ (\A file \in SeqRange(repo_log[i].files) :
                   ~KeepsFile(file, include_files, exclude_files,
                              include_files_by_pattern, exclude_files_by_pattern))
              => gv_commits[i].files = <<>>

\* the first of two commits lost all its files to the filters and the second
\* kept one: both have their record
FilteredToEmptyWitness ==
    /\ gv_parsed
    /\ Len(repo_log) = 2
    /\ Len(gv_commits) = 2
    /\ repo_log[1].files # <<>>
    /\ gv_commits[1].files = <<>>
    /\ gv_commits[2].files # <<>>

\* C6: every record of parse_commits carries the hash of its commit, and
\* process_git_commits on these records raises nothing and leaves one commits
\* row for each hash, with the author and the date of the record.
ParsedRecordsCarryHash ==
    /\ gv_parsed =>
           \A i \in 1..Len(gv_commits) : gv_commits[i].hash = gv_hashes[i]
    /\ raised = "none"
    /\ \A r \in BagToSet(commits) :
           \E i \in 1..Len(gv_commits) :
               /\ r.hash = gv_hashes[i]
               /\ r.author = gv_commits[i].author
               /\ r.date = gv_commits[i].date

(***************************************************************************)
(* Syntax trees: the nodes of the ast module that the parsers look at      *)
(***************************************************************************)
\* an absent name (asname, or the module of 'from . import f'); like None,
\* the empty string is false in 'alias.asname or alias.name'
NoName == <<>>

Name(id) == [kind |-> "Name", id |-> id]
Attribute(value, attr) == [kind |-> "Attribute", value |-> value, attr |-> attr]
Call(func, args) == [kind |-> "Call", func |-> func, args |-> args]
Alias(name, asname) == [name |-> name, asname |-> asname]
Import(names) == [kind |-> "Import", names |-> names]
ImportFrom(module, names) == [kind |-> "ImportFrom", module |-> module, names |-> names]
FunctionDef(name, body) == [kind |-> "FunctionDef", name |-> name, body |-> body]
ClassDef(name, body) == [kind |-> "ClassDef", name |-> name, body |-> body]
Module(body) == [kind |-> "Module", body |-> body]

\* what stands for the tree of a file whose text is not valid Python:
\* ast.parse raises SyntaxError on it
Unparseable == [kind |-> "SyntaxError"]

\* ast.iter_child_nodes
ChildNodes(node) ==
    CASE node.kind \in {"Module", "FunctionDef", "ClassDef"} -> node.body
      [] node.kind = "Call" -> <<node.func>> \o node.args
      [] node.kind = "Attribute" -> <<node.value>>
      [] OTHER -> <<>>

\* ast.walk: the node and all its descendants
RECURSIVE Walk(_)
Walk(node) ==
    {node} \cup UNION {Walk(ChildNodes(node)[k]) : k \in 1..Len(ChildNodes(node))}

\* str.replace('\\', '/')
BackslashToSlash(s) == [k \in 1..Len(s) |-> IF s[k] = "\\" THEN "/" ELSE s[k]]

(***************************************************************************)
(* parse_file                                                              *)
(***************************************************************************)
\* imports[key] = value
Bind(imports, key, value) ==
    [x \in DOMAIN imports \cup {key} |-> IF x = key THEN value ELSE imports[x]]

AliasKey(alias) == IF alias.asname # NoName THEN alias.asname ELSE alias.name

RECURSIVE visit_Import(_, _, _)
visit_Import(imports, node, j) ==
    IF j > Len(node.names) THEN imports
    ELSE LET alias == node.names[j]
         IN  visit_Import(Bind(imports, AliasKey(alias), alias.name), node, j + 1)

RECURSIVE visit_ImportFrom(_, _, _)
visit_ImportFrom(imports, node, j) ==
    IF j > Len(node.names) THEN imports
    ELSE LET alias == node.names[j]
             full_name == IF node.module # NoName
                          THEN node.module \o Dot \o alias.name
                          ELSE alias.name
         IN  visit_ImportFrom(Bind(imports, AliasKey(alias), full_name), node, j + 1)

\* ImportVisitor().visit(node): the import statements in document order,
\* wherever they are nested
RECURSIVE ImportVisitor(_, _)
RECURSIVE ImportVisitorEach(_, _, _)
ImportVisitor(imports, node) ==
    IF node.kind = "Import" THEN visit_Import(imports, node, 1)
    ELSE IF node.kind = "ImportFrom" THEN visit_ImportFrom(imports, node, 1)
    ELSE ImportVisitorEach(imports, ChildNodes(node), 1)

ImportVisitorEach(imports, nodes, k) ==
    IF k > Len(nodes) THEN imports
    ELSE ImportVisitorEach(ImportVisitor(imports, nodes[k]), nodes, k + 1)

\* a resolution that never looks at the imports
CalleeIgnoringImports(imports, relative_path, child) ==
    IF child.func.kind = "Attribute"
    THEN IF child.func.value.kind = "Name"
         THEN child.func.value.id \o Dot \o child.func.attr
         ELSE relative_path \o Dot \o child.func.attr
    ELSE relative_path \o Dot \o child.func.id

\* the callee of a call whose func is an Attribute or a Name
Callee(imports, relative_path, child) ==
    IF child.func.kind = "Attribute"
    THEN LET module == IF child.func.value.kind = "Name"
                       THEN child.func.value.id ELSE NoName
             called_function == child.func.attr
         IN  IF module # NoName /\ module \in DOMAIN imports
             THEN imports[module] \o Dot \o called_function
             ELSE IF module # NoName
             THEN module \o Dot \o called_function
             ELSE relative_path \o Dot \o called_function
    ELSE LET called_function == child.func.id
         IN  IF called_function \in DOMAIN imports
             THEN imports[called_function]
             ELSE relative_path \o Dot \o called_function

\* the calls that visit_FunctionDef and parse_python_files record
ObservedCalls(node) ==
    {child \in Walk(node) :
        child.kind = "Call" /\ child.func.kind \in {"Attribute", "Name"}}

\* the pairs visit_FunctionDef adds to functions
visit_FunctionDef(imports, relative_path, node) ==
    {<<relative_path \o Dot \o node.name, Callee(imports, relative_path, child)>> :
        child \in ObservedCalls(node)}

\* FunctionVisitor().visit(node): visit_FunctionDef on a definition, then
\* generic_visit on every node
RECURSIVE FunctionVisitor(_, _, _)
FunctionVisitor(imports, relative_path, node) ==
    (IF node.kind = "FunctionDef"
     THEN visit_FunctionDef(imports, relative_path, node) ELSE {})
    \cup UNION {FunctionVisitor(imports, relative_path, ChildNodes(node)[k]) :
                    k \in 1..Len(ChildNodes(node))}

parse_file(file) ==
    LET relative_path == BackslashToSlash(file.path)
        imports == ImportVisitor(<<>>, file.tree)
    IN  FunctionVisitor(imports, relative_path, file.tree)

\* ast.parse(f.read(), filename=file_path) raises
RaisesSyntaxError(file) == file.tree = Unparseable

(***************************************************************************)
(* DependencyVisualizer.parse_python_files                                 *)
(***************************************************************************)
FunctionDefsOf(tree) == {node \in Walk(tree) : node.kind = "FunctionDef"}

\* function_map after the files up to the k-th: a later file replaces the
\* entry of a name an earlier file defined
RECURSIVE function_map(_, _)
function_map(file_asts, k) ==
    IF k = 0 THEN <<>>
    ELSE LET before == function_map(file_asts, k - 1)
             names == {node.name : node \in FunctionDefsOf(file_asts[k].tree)}
         IN  [x \in DOMAIN before \cup names |->
                 IF x \in names THEN file_asts[k].path \o Dot \o x ELSE before[x]]

\* the name parse_python_files looks up for a call
CalledName(child) ==
    IF child.func.kind = "Name" THEN child.func.id ELSE child.func.attr

\* dependencies
Dependencies(file_asts) ==
    LET map == function_map(file_asts, Len(file_asts))
    IN  UNION {UNION {{<<file_asts[k].path \o Dot \o node.name,
                         map[CalledName(child)]>> :
                          child \in {c \in ObservedCalls(node) :
                                        CalledName(c) \in DOMAIN map}} :
                      node \in FunctionDefsOf(file_asts[k].tree)} :
               k \in 1..Len(file_asts)}

\* '.'.join(s.split('.')[:-1])
DropLastPart(s) ==
    IF DotPositions(s) = {} THEN <<>>
    ELSE SubSeq(s, 1, Max(DotPositions(s)) - 1)

\* self.function_dependencies and self.file_dependencies; the loop that
\* fills file_asts has no handler, so the first file that does not parse
\* ends the call after reset()
parse_python_files(directory) ==
    IF \E k \in 1..Len(directory) : RaisesSyntaxError(directory[k])
    THEN [function_dependencies |-> {}, file_dependencies |-> {},
          raised |-> "SyntaxError"]
    ELSE LET function_deps == {<<BackslashToSlash(d[1]), BackslashToSlash(d[2])>> :
                                  d \in Dependencies(directory)}
         IN  [function_dependencies |-> function_deps,
              file_dependencies |-> {<<DropLastPart(d[1]), DropLastPart(d[2])>> :
                                        d \in function_deps},
              raised |-> "none"]

(***************************************************************************)
(* CodeVisualizer.show_file_dependencies: the default query                *)
(***************************************************************************)
\* rows of functions are <<name, file_full_path>>, rows of
\* function_dependencies are <<caller_path, callee_path>>
FileDependenciesQuery(db) ==
    {<<f1[2], f2[2]>> : <<fd, f1, f2>> \in
        {t \in BagToSet(db.function_dependencies) \X BagToSet(db.functions)
                 \X BagToSet(db.functions) :
            /\ t[1][1] = t[2][1]
            /\ t[1][2] = t[3][1]
            /\ t[2][2] # t[3][2]}}

(***************************************************************************)
(* The dependency session: a directory of Python files and a built store   *)
(***************************************************************************)
MaxBody == 2        \* statements in the body of a function
MaxImports == 1     \* import statements of a file

FName == <<"f">>
GName == <<"g">>
AName == <<"a">>
HelperName == <<"helper">>
APy == <<"a", ".", "py">>
BPy == <<"b", ".", "py">>

\* f(), g(), a.f(), g.f(), a().f(), f()() and a nested 'def g(): f()'
BodyStatements ==
    <<Call(Name(FName), <<>>),
      Call(Name(GName), <<>>),
      Call(Attribute(Name(AName), FName), <<>>),
      Call(Attribute(Name(GName), FName), <<>>),
      Call(Attribute(Call(Name(AName), <<>>), FName), <<>>),
      Call(Call(Name(FName), <<>>), <<>>),
      FunctionDef(GName, <<Call(Name(FName), <<>>)>>)>>

\* bodies of up to n of the first m statements, in the order of the list; a
\* statement may repeat
Bodies(m, n) ==
    {[k \in 1..Len(ix) |-> BodyStatements[ix[k]]] :
        ix \in {q \in SeqsUpTo(1..m, n) :
                   \A j, k \in 1..Len(q) : j < k => q[j] <= q[k]}}

\* import a, import a as g, from a import f, from a import f as g,
\* from . import f, import a.g
ImportStatements ==
    {Import(<<Alias(AName, NoName)>>),
     Import(<<Alias(AName, GName)>>),
     ImportFrom(AName, <<Alias(FName, NoName)>>),
     ImportFrom(AName, <<Alias(FName, GName)>>),
     ImportFrom(NoName, <<Alias(FName, NoName)>>),
     Import(<<Alias(AName \o Dot \o GName, NoName)>>)}

\* a module-level function, or a method of a class C
TopStatements(m) ==
    {FunctionDef(name, body) : name \in {FName, GName}, body \in Bodies(m, MaxBody)}
    \cup {ClassDef(<<"C">>, <<FunctionDef(name, body)>>) :
             name \in {FName, GName}, body \in Bodies(m, MaxBody)}

\* files of imports and at most one function or class
Trees ==
    {Module(imports \o top) :
        imports \in SeqsUpTo(ImportStatements, MaxImports),
        top \in {<<>>} \cup {<<t>> : t \in TopStatements(Len(BodyStatements))}}

\* files without imports, calling f(), g() or a.f()
PlainTrees == {Module(<<FunctionDef(name, body)>>) :
                  name \in {FName, GName}, body \in Bodies(3, MaxBody)}

\* a.py defines f() that calls helper(); b.py imports a and defines g() that
\* calls a.f()
ExampleA == Module(<<FunctionDef(FName, <<Call(Name(HelperName), <<>>)>>)>>)
ExampleAWithHelper ==
    Module(<<FunctionDef(HelperName, <<>>),
             FunctionDef(FName, <<Call(Name(HelperName), <<>>)>>)>>)
ExampleB ==
    Module(<<Import(<<Alias(AName, NoName)>>),
             FunctionDef(GName, <<Call(Attribute(Name(AName), FName), <<>>)>>)>>)
ExampleProject ==
    <<[path |-> APy, tree |-> ExampleA], [path |-> BPy, tree |-> ExampleB]>>
ExampleProjectWithHelper ==
    <<[path |-> APy, tree |-> ExampleAWithHelper], [path |-> BPy, tree |-> ExampleB]>>

\* a function defined before the import that binds the name it calls
ImportAfterDef ==
    Module(<<FunctionDef(GName, <<Call(Name(FName), <<>>)>>),
             ImportFrom(AName, <<Alias(FName, NoName)>>)>>)

\* a function whose calls meet every way of resolving a callee, f() twice
AllRules ==
    Module(<<ImportFrom(AName, <<Alias(FName, GName)>>),
             FunctionDef(FName, <<Call(Name(FName), <<>>),
                                  Call(Name(GName), <<>>),
                                  Call(Attribute(Name(AName), FName), <<>>),
                                  Call(Attribute(Name(GName), FName), <<>>),
                                  Call(Name(FName), <<>>)>>)>>)

Projects ==
    {<<[path |-> APy, tree |-> t]>> : t \in Trees \cup {ImportAfterDef, AllRules}}
    \cup {<<[path |-> p[1], tree |-> t1], [path |-> p[2], tree |-> t2]>> :
             p \in {<<APy, BPy>>, <<BPy, APy>>}, t1 \in PlainTrees, t2 \in PlainTrees}
    \cup {ExampleProject, ExampleProjectWithHelper}
    \cup {<<[path |-> APy, tree |-> Unparseable]>>}
    \cup {<<[path |-> p[1], tree |-> t[1]], [path |-> p[2], tree |-> t[2]]>> :
             p \in {<<APy, BPy>>, <<BPy, APy>>},
             t \in ({Unparseable} \X PlainTrees) \cup (PlainTrees \X {Unparseable})}

DepInit ==
    /\ db_built = TRUE
    /\ files = EmptyBag
    /\ functions = EmptyBag
    /\ function_dependencies = EmptyBag
    /\ commits = EmptyBag
    /\ commit_files = EmptyBag
    /\ raised = "none"
    /\ GitIdle
    /\ project \in Projects
    /\ pf_called = FALSE
    /\ pf_index = 0
    /\ pf_result = {}
    /\ dv_parsed = FALSE
    /\ dv_function_dependencies = {}
    /\ dv_file_dependencies = {}
    /\ PlotIdle
    /\ HeatIdle

\* parse_file(file_path) on one of the files
ParseFile ==
    \E k \in 1..Len(project) :
        /\ pf_called' = (pf_called \/ ~RaisesSyntaxError(project[k]))
        /\ pf_index' = IF RaisesSyntaxError(project[k]) THEN pf_index ELSE k
        /\ pf_result' = IF RaisesSyntaxError(project[k]) THEN pf_result
                        ELSE parse_file(project[k])
        /\ raised' = IF RaisesSyntaxError(project[k]) THEN "SyntaxError" ELSE "none"
        /\ UNCHANGED <<tableVars, gitVars, plotVars, heatVars, project, dv_parsed,
                       dv_function_dependencies, dv_file_dependencies>>

ParsePythonFiles ==
    \E r \in {parse_python_files(project)} :
        /\ dv_parsed' = TRUE
        /\ dv_function_dependencies' = r.function_dependencies
        /\ dv_file_dependencies' = r.file_dependencies
        /\ raised' = r.raised
        /\ UNCHANGED <<tableVars, gitVars, plotVars, heatVars, project, pf_called,
                       pf_index, pf_result>>

\* visualizer.process_dependencies(dep_visualizer) after parse_python_files
ProcessParsedDependencies ==
    /\ dv_parsed
    /\ \E r \in {process_dependencies(Store, dv_function_dependencies)} :
            /\ db_built' = r.built
            /\ files' = r.db.files
            /\ functions' = r.db.functions
            /\ function_dependencies' = r.db.function_dependencies
            /\ commits' = r.db.commits
            /\ commit_files' = r.db.commit_files
            /\ raised' = r.raised
    /\ UNCHANGED <<gitVars, depVars, plotVars, heatVars>>

DepNext == ParseFile \/ ParsePythonFiles \/ ProcessParsedDependencies

SpecDeps == DepInit /\ [][DepNext]_vars

(***************************************************************************)
(* Properties of the dependency parsers                                   *)
(***************************************************************************)
\* C7: the file graph has no edge from a file to itself, neither in
\* file_dependencies after parse_python_files nor in the rows of the default
\* query of show_file_dependencies.
NoSelfLoops ==
    /\ dv_parsed => \A d \in dv_file_dependencies : d[1] # d[2]
    /\ \A d \in FileDependenciesQuery(Store.db) : d[1] # d[2]

ExampleFunctionEdges ==
    {<<APy \o Dot \o FName, APy \o Dot \o HelperName>>,
     <<BPy \o Dot \o GName, APy \o Dot \o FName>>}

\* C8: for a.py with f() calling helper() and b.py importing a with g()
\* calling a.f(), whether or not a.py also defines helper, the function
\* edges are exactly (a.py.f, a.py.helper) and (b.py.g, a.py.f) and the file
\* edges exactly (b.py, a.py): parse_python_files gives both sets, and
\* parse_file gives for each file the function edges of its callers.
ExampleEdges ==
    project \in {ExampleProject, ExampleProjectWithHelper} =>
    /\ dv_parsed =>
           /\ dv_function_dependencies = ExampleFunctionEdges
           /\ dv_file_dependencies = {<<BPy, APy>>}
    /\ pf_called =>
           pf_result = {d \in ExampleFunctionEdges :
                           DropLastPart(d[1]) = project[pf_index].path}

CallsOf(node) == {child \in Walk(node) : child.kind = "Call"}

IsBareName(child) == child.func.kind = "Name"

IsReceiverAttr(child) ==
    child.func.kind = "Attribute" /\ child.func.value.kind = "Name"

\* the edges the four rules give for the calls in the function definitions
\* of the file, with the bindings the import statements of the file leave
ResolvedByRules(file, result) ==
    LET path == BackslashToSlash(file.path)
        bound == ImportVisitor(<<>>, file.tree)
    IN  /\ \A def \in FunctionDefsOf(file.tree) : \A call \in CallsOf(def) :
               LET caller == path \o Dot \o def.name
               IN  /\ (IsBareName(call) /\ call.func.id \in DOMAIN bound)
                          => <<caller, bound[call.func.id]>> \in result
                   /\ (IsBareName(call) /\ call.func.id \notin DOMAIN bound)
                          => <<caller, path \o Dot \o call.func.id>> \in result
                   /\ (IsReceiverAttr(call) /\ call.func.value.id \in DOMAIN bound)
                          => <<caller, bound[call.func.value.id] \o Dot \o call.func.attr>>
                                 \in result
                   /\ (IsReceiverAttr(call) /\ call.func.value.id \notin DOMAIN bound)
                          => <<caller, call.func.value.id \o Dot \o call.func.attr>>
                                 \in result
        /\ \A d \in result :
               \E def \in FunctionDefsOf(file.tree) :
                   /\ d[1] = path \o Dot \o def.name
                   /\ \E call \in CallsOf(def) :
                          \/ /\ IsBareName(call)
                             /\ d[2] = IF call.func.id \in DOMAIN bound
                                       THEN bound[call.func.id]
                                       ELSE path \o Dot \o call.func.id
                          \/ /\ IsReceiverAttr(call)
                             /\ d[2] = (IF call.func.value.id \in DOMAIN bound
                                        THEN bound[call.func.value.id]
                                        ELSE call.func.value.id)
                                       \o Dot \o call.func.attr
                          \/ /\ call.func.kind = "Attribute"
                             /\ call.func.value.kind # "Name"
                             /\ d[2] = path \o Dot \o call.func.attr

\* C9: the edges parse_file returns are those of the four rules: a bare name
\* bound by an import gives the bound name, a bare name not bound gives
\* <relative_path>.<name>, receiver.attr with the receiver bound gives
\* <binding>.<attr> and with a bare receiver not bound <receiver>.<attr>; the
\* caller is <relative_path>.<function name>; the edges are a set, so a call
\* made twice gives one edge.
ParseFileResolves ==
    pf_called => ResolvedByRules(project[pf_index], pf_result)

\* parse_file has returned the three edges of the file that makes five calls
\* of the four kinds, two of them the same
AllRulesWitness ==
    /\ pf_called
    /\ project[pf_index].tree = AllRules
    /\ pf_result = {<<APy \o Dot \o FName, APy \o Dot \o FName>>,
                    <<APy \o Dot \o FName, AName \o Dot \o FName>>,
                    <<APy \o Dot \o FName, AName \o Dot \o FName \o Dot \o FName>>}

(***************************************************************************)
(* The most changed files                                                  *)
(***************************************************************************)
\* the number of files both scatter plots keep
TopN == 25

\* file names in ascending order of the strings
TopNames ==
    <<"f01", "f02", "f03", "f04", "f05", "f06", "f07", "f08", "f09", "f10",
      "f11", "f12", "f13", "f14", "f15", "f16", "f17", "f18", "f19", "f20",
      "f21", "f22", "f23", "f24", "f25", "f26">>

TopPath(i) == <<TopNames[i], ".", "py">>

TokenRank ==
    [token \in {TopNames[i] : i \in 1..Len(TopNames)} |->
        CHOOSE i \in 1..Len(TopNames) : TopNames[i] = token]

\* p < q for two paths that differ at a file name token
PathLess(p, q) ==
    \E k \in 1..Len(p) :
        /\ k <= Len(q)
        /\ \A j \in 1..(k - 1) : p[j] = q[j]
        /\ p[k] # q[k]
        /\ TokenRank[p[k]] < TokenRank[q[k]]

\* sorted(S)
RECURSIVE Sorted(_)
Sorted(S) ==
    IF S = {} THEN <<>>
    ELSE LET least == CHOOSE p \in S : \A q \in S \ {p} : PathLess(p, q)
         IN  <<least>> \o Sorted(S \ {least})

\* the files of the commits in the order the two loops meet them
RECURSIVE ListedFiles(_, _)
ListedFiles(cs, i) ==
    IF i > Len(cs) THEN <<>> ELSE cs[i].files \o ListedFiles(cs, i + 1)

\* the Counter after 'file_counter[file] += 1' for every listed file: the
\* sequence of [file, count] in the order of first insertion
file_counter(listed) ==
    LET firsts == {k \in 1..Len(listed) : \A j \in 1..(k - 1) : listed[j] # listed[k]}
        CountOf(file) == Cardinality({j \in 1..Len(listed) : listed[j] = file})
    IN  [n \in 1..Cardinality(firsts) |->
            LET k == CHOOSE k \in firsts :
                         Cardinality({j \in firsts : j < k}) = n - 1
            IN  [file |-> listed[k], count |-> CountOf(listed[k])]]

\* Counter.most_common(n): by count descending, equal counts in the order of
\* first insertion
most_common(counter, n) ==
    LET Place(k) == Cardinality({j \in 1..Len(counter) :
                        \/ counter[j].count > counter[k].count
                        \/ counter[j].count = counter[k].count /\ j < k}) + 1
        size == IF n < Len(counter) THEN n ELSE Len(counter)
    IN  [m \in 1..size |-> counter[CHOOSE k \in 1..Len(counter) : Place(k) = m]]

\* top_files of GitVisualizer.show_file_changes_scatter
show_file_changes_scatter(cs) ==
    LET common == most_common(file_counter(ListedFiles(cs, 1)), TopN)
    IN  Sorted({common[k].file : k \in 1..Len(common)})

\* the groups of the top 25 query: file_path of the rows of commit_files
\* joined to commits, LIKE '%.py'
JoinedRows(db) ==
    {r \in BagToSet(db.commit_files) :
        /\ \E c \in BagToSet(db.commits) : c.hash = r[1]
        /\ LikeDotPy(r[2])}

\* count(*) of every group
GroupCounts(db) ==
    [path \in {r[2] : r \in JoinedRows(db)} |->
        BagCardinality([r \in {x \in JoinedRows(db) : x[2] = path} |->
                           CopiesIn(r, db.commit_files)])]

\* SELECT c.*, cf.file_path FROM commits c INNER JOIN commit_files cf
AllCommitFiles(db) ==
    {<<c.hash, c.author, c.date, r[2]>> :
        <<c, r>> \in {x \in BagToSet(db.commits) \X BagToSet(db.commit_files) :
                         x[1].hash = x[2][1]}}

RECURSIVE SubsetsOfSize(_, _)
SubsetsOfSize(S, k) ==
    IF k = 0 THEN {{}}
    ELSE UNION {{T \cup {x} : T \in SubsetsOfSize({y \in S : PathLess(x, y)}, k - 1)} :
                   x \in S}

\* the results ORDER BY count(*) DESC LIMIT 25 can give: the query names no
\* second key, so among equal counts any of the groups may come first
LimitResults(count, left) ==
    {DOMAIN count \ out : out \in
        {o \in SubsetsOfSize(DOMAIN count, left) :
            \A p \in DOMAIN count \ o : \A q \in o : count[p] >= count[q]}}

TopQueryResults(db) ==
    LET groups == {r[2] : r \in JoinedRows(db)}
    IN  LimitResults(GroupCounts(db),
                     IF Cardinality(groups) > TopN
                     THEN Cardinality(groups) - TopN ELSE 0)

(***************************************************************************)
(* The plotting session: a repository whose commits changed runs of files, *)
(* parsed by GitVisualizer and ingested into a built store                 *)
(***************************************************************************)
MaxShort == 1       \* files a commit of a long run leaves out

\* runs of neighbouring files that leave out at most MaxShort + 1 files, and
\* the first and the last file alone
Runs ==
    {[k \in 1..(hi - lo + 1) |-> TopPath(lo + k - 1)] :
        <<lo, hi>> \in {w \in (1..Len(TopNames)) \X (1..Len(TopNames)) :
                           /\ w[1] <= w[2]
                           /\ \/ w[2] - w[1] + 1 >= Len(TopNames) - MaxShort - 1
                              \/ w[1] = w[2] /\ w[1] \in {1, Len(TopNames)}}}

RunCommits ==
    {[hash |-> "h1", author |-> "ann",
      date |-> "Mon Jan 1 10:00:00 2024 +0100", files |-> fs] : fs \in Runs}
    \cup
    {[hash |-> "h2", author |-> "bob",
      date |-> "Tue Jan 2 10:00:00 2024 +0100", files |-> fs] : fs \in Runs}

RunLogs ==
    {log \in SeqsUpTo(RunCommits, Cardinality(Hashes)) :
        /\ Len(log) >= 1
        /\ \A i, j \in 1..Len(log) : i # j => log[i].hash # log[j].hash}

PlotInit ==
    /\ db_built = TRUE
    /\ files = EmptyBag
    /\ functions = EmptyBag
    /\ function_dependencies = EmptyBag
    /\ commits = EmptyBag
    /\ commit_files = EmptyBag
    /\ raised = "none"
    /\ repo_log \in RunLogs
    /\ include_files = None
    /\ exclude_files = None
    /\ include_files_by_pattern = None
    /\ exclude_files_by_pattern = None
    /\ gv_parsed = FALSE
    /\ gv_hashes = <<>>
    /\ gv_commits = <<>>
    /\ DepIdle
    /\ PlotIdle
    /\ HeatIdle

\* commit objects that carry the hash of their commit beside what
\* parse_commits reads
HashedCommits(log) ==
    [i \in 1..Len(log) |->
        [hash |-> log[i].hash, author |-> log[i].author,
         date |-> Strptime(log[i].date), files |-> log[i].files]]

\* process_git_commits on the commits of the repository
ProcessLogCommits ==
    /\ \E r \in {process_git_commits(Store, HashedCommits(repo_log))} :
            /\ db_built' = r.built
            /\ files' = r.db.files
            /\ functions' = r.db.functions
            /\ function_dependencies' = r.db.function_dependencies
            /\ commits' = r.db.commits
            /\ commit_files' = r.db.commit_files
            /\ raised' = r.raised
    /\ UNCHANGED <<gitVars, depVars, plotVars, heatVars>>

ShowFileChangesScatter ==
    /\ gv_parsed
    /\ gv_shown' = TRUE
    /\ gv_top_files' = show_file_changes_scatter(gv_commits)
    /\ UNCHANGED <<storeVars, gitVars, depVars, heatVars, cv_shown,
                   cv_top_25_files, cv_commits>>

\* show_file_changes_from_git_scatter with pre_filtering and no query
ShowFileChangesFromGitScatter ==
    /\ db_built
    /\ cv_shown' = TRUE
    /\ cv_top_25_files' \in TopQueryResults(Store.db)
    /\ cv_commits' = AllCommitFiles(Store.db)
    /\ UNCHANGED <<storeVars, gitVars, depVars, heatVars, gv_shown, gv_top_files>>

PlotNext ==
    \/ ParseCommits
    \/ ProcessLogCommits
    \/ ShowFileChangesScatter
    \/ ShowFileChangesFromGitScatter

SpecPlot == PlotInit /\ [][PlotNext]_vars

\* the number of times the commits list each file they list
ChangeCounts(cs) ==
    [file \in UNION {SeqRange(cs[i].files) : i \in 1..Len(cs)} |->
        Cardinality({<<i, j>> \in (1..Len(cs)) \X (1..Len(TopNames)) :
                        j <= Len(cs[i].files) /\ cs[i].files[j] = file})]

\* the number of fetched rows of each file
FetchedCounts(rows) ==
    [path \in {r[4] : r \in rows} |-> Cardinality({r \in rows : r[4] = path})]

\* the first TopN of the files by count descending, then path ascending
FirstByCountThenPath(count) ==
    {p \in DOMAIN count :
        Cardinality({q \in DOMAIN count :
            \/ count[q] > count[p]
            \/ count[q] = count[p] /\ PathLess(q, p)}) < TopN}

\* C10: the files either plot keeps are the first 25 of the changed files
\* ordered by number of changes descending, then by path ascending: a
\* function of the commit-file edges alone, which at equal counts keeps the
\* smaller paths.
TopNByCountThenPath ==
    /\ gv_shown => SeqRange(gv_top_files) = FirstByCountThenPath(ChangeCounts(gv_commits))
    /\ cv_shown => cv_top_25_files = FirstByCountThenPath(FetchedCounts(cv_commits))

(***************************************************************************)
(* CodeVisualizer.show_file_dependencies: the colours of the nodes         *)
(***************************************************************************)
\* the quotient of a true division, kept as numerator and denominator
Divide(num, den) == [num |-> num, den |-> den]

\* the float 0.5
Half == [num |-> 1, den |-> 2]

Min(S) == CHOOSE m \in S : \A n \in S : m <= n

\* G.nodes() after an add_edge for every row of deps
GraphNodes(deps) == {d[1] : d \in deps} \cup {d[2] : d \in deps}

\* changes_count_dict.get(node, 0) for every node
NodeCounts(nodes, changes_count_dict) ==
    [node \in nodes |->
        IF node \in DOMAIN changes_count_dict THEN changes_count_dict[node] ELSE 0]

\* a normalisation that divides whatever the two bounds are
NormalizedUnguarded(count, min_count, max_count) ==
    Divide(count - min_count, max_count - min_count)

\* one element of normalized_counts
Normalized(count, min_count, max_count) ==
    IF max_count > min_count
    THEN Divide(count - min_count, max_count - min_count)
    ELSE Half

\* normalized_counts, by node
NormalizedCounts(node_counts) ==
    LET counts == {node_counts[node] : node \in DOMAIN node_counts}
        max_count == IF counts # {} THEN Max(counts) ELSE 1
        min_count == IF counts # {} THEN Min(counts) ELSE 0
    IN  [node \in DOMAIN node_counts |->
            Normalized(node_counts[node], min_count, max_count)]

(***************************************************************************)
(* The graph session: a directory of three files under ./python/, a        *)
(* repository and a built store                                            *)
(***************************************************************************)
ZPy == <<"z", ".", "py">>
HName == <<"h">>

\* the body of a function that calls nothing or one of f, g and h
OneCallBodies == {<<>>} \cup {<<Call(Name(n), <<>>)>> : n \in {FName, GName, HName}}

\* x.py defines f, y.py defines g and z.py defines h
GraphProjects ==
    {<<[path |-> PythonPrefix \o XPy, tree |-> Module(<<FunctionDef(FName, bf)>>)],
       [path |-> PythonPrefix \o YPy, tree |-> Module(<<FunctionDef(GName, bg)>>)],
       [path |-> PythonPrefix \o ZPy, tree |-> Module(<<FunctionDef(HName, bh)>>)]>> :
        bf \in OneCallBodies, bg \in OneCallBodies, bh \in OneCallBodies}

GraphCommits ==
    {[hash |-> "h1", author |-> "ann",
      date |-> "Mon Jan 1 10:00:00 2024 +0100", files |-> fs] :
        fs \in {<<>>, <<XPy>>, <<XPy, YPy>>}}
    \cup
    {[hash |-> "h2", author |-> "bob",
      date |-> "Tue Jan 2 10:00:00 2024 +0100", files |-> fs] :
        fs \in {<<>>, <<XPy>>, <<XPy, YPy>>}}

GraphLogs ==
    {log \in SeqsUpTo(GraphCommits, Cardinality(Hashes)) :
        /\ Len(log) >= 1
        /\ \A i, j \in 1..Len(log) : i # j => log[i].hash # log[j].hash}

GraphInit ==
    /\ db_built = TRUE
    /\ files = EmptyBag
    /\ functions = EmptyBag
    /\ function_dependencies = EmptyBag
    /\ commits = EmptyBag
    /\ commit_files = EmptyBag
    /\ raised = "none"
    /\ repo_log \in GraphLogs
    /\ include_files = None
    /\ exclude_files = None
    /\ include_files_by_pattern = None
    /\ exclude_files_by_pattern = None
    /\ gv_parsed = FALSE
    /\ gv_hashes = <<>>
    /\ gv_commits = <<>>
    /\ project \in GraphProjects
    /\ pf_called = FALSE
    /\ pf_index = 0
    /\ pf_result = {}
    /\ dv_parsed = FALSE
    /\ dv_function_dependencies = {}
    /\ dv_file_dependencies = {}
    /\ PlotIdle
    /\ HeatIdle

\* show_file_dependencies with the default query
ShowFileDependencies ==
    /\ db_built
    /\ \E node_counts \in {NodeCounts(GraphNodes(FileDependenciesQuery(Store.db)),
                                      GroupCounts(Store.db))} :
            /\ cv_graph_shown' = TRUE
            /\ cv_node_counts' = node_counts
            /\ cv_normalized_counts' = NormalizedCounts(node_counts)
    /\ UNCHANGED <<storeVars, gitVars, depVars, plotVars>>

GraphNext ==
    \/ ParsePythonFiles
    \/ ProcessParsedDependencies
    \/ ProcessLogCommits
    \/ ShowFileDependencies

SpecGraph == GraphInit /\ [][GraphNext]_vars

\* C11: every normalised count is a quotient by a positive number and lies
\* in [0, 1]; when the counts of the nodes differ, the nodes with the least
\* count have 0 and those with the greatest 1; when they are all equal every
\* value is 0.5; a graph without nodes has no values; a node without a count
\* in the store counts 0.
HeatNormalized ==
    cv_graph_shown =>
    /\ DOMAIN cv_normalized_counts = DOMAIN cv_node_counts
    /\ \A node \in DOMAIN cv_node_counts :
           LET value == cv_normalized_counts[node]
               counts == {cv_node_counts[n] : n \in DOMAIN cv_node_counts}
           IN  /\ value.den > 0
               /\ 0 <= value.num
               /\ value.num <= value.den
               /\ Max(counts) > Min(counts) =>
                      /\ cv_node_counts[node] = Min(counts) => value.num = 0
                      /\ cv_node_counts[node] = Max(counts) => value.num = value.den
               /\ Max(counts) = Min(counts) => 2 * value.num = value.den

\* three nodes coloured 0, 0.5 and 1: z.py was never changed, y.py once and
\* x.py twice
ThreeHeatsWitness ==
    /\ cv_graph_shown
    /\ cv_node_counts = (PythonPrefix \o XPy :> 2) @@ (PythonPrefix \o YPy :> 1)
                        @@ (PythonPrefix \o ZPy :> 0)
    /\ cv_normalized_counts[PythonPrefix \o ZPy].num = 0
    /\ cv_normalized_counts[PythonPrefix \o YPy] = Divide(1, 2)
    /\ cv_normalized_counts[PythonPrefix \o XPy] = Divide(2, 2)

\* the files of the directory that parse
ValidFiles(directory) ==
    LET Parses(file) == ~RaisesSyntaxError(file)
    IN  SelectSeq(directory, Parses)

\* C12: parse_python_files over a directory with a file that does not parse
\* raises nothing, and function_dependencies holds the edges of the files
\* that parse and no other.
UnparseableFileSkipped ==
    [][ParsePythonFiles =>
           /\ raised' # "SyntaxError"
           /\ dv_function_dependencies' = Dependencies(ValidFiles(project))]_vars

\* the names <path>.<name> of the functions defined at module level
TopLevelCallers(file) ==
    {BackslashToSlash(file.path) \o Dot \o file.tree.body[k].name :
        k \in {j \in 1..Len(file.tree.body) :
                  file.tree.body[j].kind = "FunctionDef"}}

\* C13: the caller of every edge, of parse_file and of parse_python_files,
\* is a function defined at the top level of its file: a call inside a
\* nested function belongs to the enclosing top-level function only, and a
\* call inside a method of a class gives no edge.
TopLevelCallersOnly ==
    /\ pf_called =>
           \A d \in pf_result : d[1] \in TopLevelCallers(project[pf_index])
    /\ dv_parsed =>
           \A d \in dv_function_dependencies :
               \E k \in 1..Len(project) : d[1] \in TopLevelCallers(project[k])

\* the target is a bare name, or an attribute of a bare name
ObservableCall(call) == IsBareName(call) \/ IsReceiverAttr(call)

\* C14: a call whose target is neither a bare name nor an attribute of a
\* bare-name receiver gives no edge: every edge of parse_file and of
\* parse_python_files comes from a call of one of the two observable forms.
OnlyObservableCallsGiveEdges ==
    /\ pf_called =>
           LET file == project[pf_index]
               path == BackslashToSlash(file.path)
               bound == ImportVisitor(<<>>, file.tree)
           IN  \A d \in pf_result :
                   \E def \in FunctionDefsOf(file.tree) :
                       /\ d[1] = path \o Dot \o def.name
                       /\ \E call \in CallsOf(def) :
                              /\ ObservableCall(call)
                              /\ d[2] = Callee(bound, path, call)
    /\ dv_parsed =>
           LET map == function_map(project, Len(project))
           IN  \A d \in dv_function_dependencies :
                   \E k \in 1..Len(project) :
                       \E def \in FunctionDefsOf(project[k].tree) :
                           /\ d[1] = BackslashToSlash(project[k].path) \o Dot \o def.name
                           /\ \E call \in CallsOf(def) :
                                  /\ ObservableCall(call)
                                  /\ CalledName(call) \in DOMAIN map
                                  /\ d[2] = BackslashToSlash(map[CalledName(call)])

(***************************************************************************)
(* Properties of the store over a session                                  *)
(***************************************************************************)
\* every row of every table is still there, as many times, after the step
TablesGrow ==
    /\ files \sqsubseteq files'
    /\ functions \sqsubseteq functions'
    /\ function_dependencies \sqsubseteq function_dependencies'
    /\ commits \sqsubseteq commits'
    /\ commit_files \sqsubseteq commit_files'

\* the step is build_db_if_not_exists: the store is there and empty
Rebuilt == db_built' /\ Store'.db = EmptyDb

\* C15: a call of process_dependencies or process_git_commits removes and
\* changes no row of the five tables; only build_db_if_not_exists, which
\* makes the store anew and empty, removes rows.
AppendOnlyStore == [][TablesGrow \/ Rebuilt]_vars

\* the store holds rows of two commits and of a function edge: rows that at
\* least two calls stored, the later leaving those of the earlier
GrownWitness ==
    /\ raised = "none"
    /\ {r.hash : r \in BagToSet(commits)} = {"h1", "h2"}
    /\ function_dependencies # EmptyBag
    /\ commit_files # EmptyBag

\* C18: every commit_files row has its hash in commits and its path in
\* files, every functions row has its path in files, and both names of every
\* function_dependencies row are names of functions rows.
ReferentialIntegrity ==
    /\ \A r \in BagToSet(commit_files) :
           /\ \E c \in BagToSet(commits) : c.hash = r[1]
           /\ r[2] \in BagToSet(files)
    /\ \A r \in BagToSet(functions) : r[2] \in BagToSet(files)
    /\ \A r \in BagToSet(function_dependencies) :
           /\ \E fn \in BagToSet(functions) : fn[1] = r[1]
           /\ \E fn \in BagToSet(functions) : fn[1] = r[2]

\* the store holds a commit with two files and an edge between functions of
\* two files
ReferencesWitness ==
    /\ raised = "none"
    /\ function_dependencies # EmptyBag
    /\ Cardinality(BagToSet(functions)) >= 2
    /\ \E h \in Hashes : Cardinality(BagToSet(CommitFilesOf(Store.db, h))) = 2

(***************************************************************************)
(* Calls ended from outside                                                *)
(***************************************************************************)
\* the call is stopped (KeyboardInterrupt, or the process is killed) unless
\* it has raised already
Interrupt(st) ==
    IF st.raised = "none" THEN [st EXCEPT !.raised = "KeyboardInterrupt"] ELSE st

\* process_git_commits stopped in its i-th commit object, after the commits
\* row and the rows of the first j paths: conn.commit() was not reached
interrupted_process_git_commits(st0, cs, i, j) ==
    LET before == CommitLoop(st0, SubSeq(cs, 1, i - 1), 1)
        partial == CommitStep(before, [cs[i] EXCEPT !.files = SubSeq(@, 1, j)])
    IN  EndTransaction(st0, Interrupt(partial))

\* the lists of a call that is stopped: one path less than CommitLists
InterruptedLists == CommitListsWithin[MaxCommits, MaxSize - 1]

GitInterruptPoints(cs) ==
    {<<i, j>> \in (1..Len(cs)) \X (0..MaxSize) : j <= Len(cs[i].files)}

\* process_dependencies stopped after the edges done of the set
interrupted_process_dependencies(st0, done) ==
    EndTransaction(st0, Interrupt(DependencyLoop(st0, done)))

InterruptedProcessGitCommits ==
    \E cs \in InterruptedLists :
        \E p \in GitInterruptPoints(cs) :
            \E r \in {interrupted_process_git_commits(Store, cs, p[1], p[2])} :
                /\ db_built' = r.built
                /\ files' = r.db.files
                /\ functions' = r.db.functions
                /\ function_dependencies' = r.db.function_dependencies
                /\ commits' = r.db.commits
                /\ commit_files' = r.db.commit_files
                /\ raised' = r.raised
                /\ UNCHANGED <<gitVars, depVars, plotVars, heatVars>>

InterruptedProcessDependencies ==
    \E edges \in SessionEdgeSets :
        \E done \in SUBSET edges :
            \E r \in {interrupted_process_dependencies(Store, done)} :
                /\ db_built' = r.built
                /\ files' = r.db.files
                /\ functions' = r.db.functions
                /\ function_dependencies' = r.db.function_dependencies
                /\ commits' = r.db.commits
                /\ commit_files' = r.db.commit_files
                /\ raised' = r.raised
                /\ UNCHANGED <<gitVars, depVars, plotVars, heatVars>>

InterruptNext ==
    \/ BuildDb
    \/ ProcessDependencies
    \/ ProcessGitCommits
    \/ InterruptedProcessGitCommits
    \/ InterruptedProcessDependencies

SpecInterrupt == Init /\ [][InterruptNext]_vars

\* C16: a call of process_git_commits or process_dependencies that is
\* stopped at any step and then made again on the store it left gives the
\* tables one call that is not stopped gives, from every reachable store and
\* for every input; no commit stays in commits with part of its
\* commit_files rows.
InterruptedIngestionRecovers ==
    /\ \A cs \in InterruptedLists :
           \A p \in GitInterruptPoints(cs) :
               LET left == interrupted_process_git_commits(Store, cs, p[1], p[2])
               IN  process_git_commits(Fresh(left), cs).db
                       = process_git_commits(Store, cs).db
    /\ \A edges \in SessionEdgeSets :
           \A done \in SUBSET edges :
               LET left == interrupted_process_dependencies(Store, done)
               IN  process_dependencies(Fresh(left), edges).db
                       = process_dependencies(Store, edges).db

\* a call was stopped on a store that holds commit h1 and not h2; the call
\* for h2 of bob with x.py and y.py, stopped after the commits row and the
\* rows of x.py, left no row of h2, and made again it stores h2 with both
\* files
InterruptedWitness ==
    LET h2 == [hash |-> "h2", author |-> "bob", date |-> "d2", files |-> <<XPy, YPy>>]
    IN  /\ raised = "KeyboardInterrupt"
        /\ {r.hash : r \in BagToSet(commits)} = {"h1"}
        /\ interrupted_process_git_commits(Store, <<h2>>, 1, 1).db = Store.db
        /\ CommitFilesOf(process_git_commits(Store, <<h2>>).db, "h2")
               = SetToBag({<<"h2", PythonPrefix \o XPy>>,
                           <<"h2", PythonPrefix \o YPy>>})

(***************************************************************************)
(* Properties of the stored paths and of the stored file graph             *)
(***************************************************************************)
\* C17: ingesting a commit object of a new hash h with the files list F
\* makes the commit_files rows of h the rows (h, f) for f in F and makes
\* every f a files row, f being the path of the list unchanged.  The lists
\* are those that name no path twice.
NewCommitStoresItsPaths ==
    (raised = "none" /\ db_built) =>
    \A c \in CommitObjects(MaxCommits) :
        (SelectHashIsNone(Store, c.hash) /\ ~HasRepeatedPath(c.files)) =>
            LET r == process_git_commits(Store, <<c>>)
                F == {c.files[j] : j \in 1..Len(c.files)}
            IN  /\ r.raised = "none"
                /\ CommitFilesOf(r.db, c.hash) = SetToBag({<<c.hash, f>> : f \in F})
                /\ \A f \in F : f \in BagToSet(r.db.files)

\* File Collapse of an edge set without the pairs of a file with itself
CollapsedEdges(edges) ==
    {d \in {<<DropLastPart(e[1]), DropLastPart(e[2])>> : e \in edges} : d[1] # d[2]}

\* C19: for every edge set ingested into the empty store, the default query
\* of show_file_dependencies returns the pairs (caller file, callee file) of
\* the edges whose two files differ and no other pair, also when two files
\* define functions of one name.
StoredFileGraphIsCollapse ==
    (raised = "none" /\ db_built /\ Store.db = EmptyDb) =>
    \A edges \in EdgeSets :
        LET r == process_dependencies(Store, edges)
        IN  /\ r.raised = "none"
            /\ FileDependenciesQuery(r.db) = CollapsedEdges(edges)
====
